---- MODULE Spec2Model ----
(***************************************************************************)
(* Model of the Oxen storage API request signer: CryptoUtils (crypto.ts)   *)
(* and PostmanParamsGenerator (postman-params.ts).                         *)
(*                                                                         *)
(* Text is a sequence of one-character strings, bytes are sequences of     *)
(* 0..255.  An optional argument is <<>> (undefined) or <<v>>.  A params   *)
(* record is a function over the keys that JSON.stringify would print: a   *)
(* key whose value is undefined is not in its DOMAIN.                      *)
(***************************************************************************)
EXTENDS Integers, Sequences, FiniteSets, TLC

(***************************************************************************)
(* Bounds                                                                  *)
(***************************************************************************)
NumSeeds == 2
MaxTime == 2
MaxHashes == 2

(***************************************************************************)
(* Characters and text                                                     *)
(***************************************************************************)
DigitChars == <<"0","1","2","3","4","5","6","7","8","9">>
LowerLetters == <<"a","b","c","d","e","f","g","h","i","j","k","l","m",
                  "n","o","p","q","r","s","t","u","v","w","x","y","z">>
UpperLetters == <<"A","B","C","D","E","F","G","H","I","J","K","L","M",
                  "N","O","P","Q","R","S","T","U","V","W","X","Y","Z">>

InSeq(s, c) == \E i \in 1..Len(s) : s[i] = c
IndexOf(s, c) == CHOOSE i \in 1..Len(s) : s[i] = c
Range(s) == {s[i] : i \in 1..Len(s)}

Chars ==
  Range(DigitChars) \cup Range(UpperLetters) \cup Range(LowerLetters)
    \cup {"+", "-", "/", "=", "!", " ", "_"}

\* The UTF-8 code of each ASCII character of the model.
CharCodes ==
  [c \in Chars |->
     IF InSeq(DigitChars, c) THEN 47 + IndexOf(DigitChars, c)
     ELSE IF InSeq(UpperLetters, c) THEN 64 + IndexOf(UpperLetters, c)
     ELSE IF InSeq(LowerLetters, c) THEN 96 + IndexOf(LowerLetters, c)
     ELSE IF c = "+" THEN 43
     ELSE IF c = "-" THEN 45
     ELSE IF c = "/" THEN 47
     ELSE IF c = "=" THEN 61
     ELSE IF c = "!" THEN 33
     ELSE IF c = " " THEN 32
     ELSE 95]

CharCode(c) == CharCodes[c]

\* new TextEncoder().encode(text)
TextEncode(text) == [i \in 1..Len(text) |-> CharCode(text[i])]

RECURSIVE NatToString(_)
NatToString(n) ==
  IF n < 10 THEN <<DigitChars[n + 1]>>
  ELSE NatToString(n \div 10) \o <<DigitChars[(n % 10) + 1]>>

\* `${n}` and n.toString() for an integer n
NumberToString(n) ==
  IF n < 0 THEN <<"-">> \o NatToString(0 - n) ELSE NatToString(n)

\* A number beyond 31 bits is written as <<high, low>> and stands for
\* high * 10^9 + low, with low below 10^9.
RECURSIVE PadStart(_, _)
PadStart(text, n) == IF Len(text) >= n THEN text ELSE PadStart(<<"0">> \o text, n)

\* `${n}` for a number written as <<high, low>>
WideNumberToString(n) ==
  IF n[1] = 0 THEN NatToString(n[2])
  ELSE NatToString(n[1]) \o PadStart(NatToString(n[2]), 9)

RECURSIVE Join(_)
\* strings.join('')
Join(strs) ==
  IF strs = <<>> THEN <<>> ELSE Head(strs) \o Join(Tail(strs))

(***************************************************************************)
(* @stablelib/hex and @stablelib/base64                                    *)
(***************************************************************************)
HexUpper == <<"0","1","2","3","4","5","6","7","8","9","A","B","C","D","E","F">>
HexLower == <<"0","1","2","3","4","5","6","7","8","9","a","b","c","d","e","f">>

\* hex.encode(bytes): upper case by default
HexEncode(bytes) ==
  [i \in 1..(2 * Len(bytes)) |->
     IF i % 2 = 1 THEN HexUpper[(bytes[(i + 1) \div 2] \div 16) + 1]
     ELSE HexUpper[(bytes[i \div 2] % 16) + 1]]

\* b.toString(16).padStart(2, '0') joined: lower case
HexEncodeLower(bytes) ==
  [i \in 1..(2 * Len(bytes)) |->
     IF i % 2 = 1 THEN HexLower[(bytes[(i + 1) \div 2] \div 16) + 1]
     ELSE HexLower[(bytes[i \div 2] % 16) + 1]]

HexDigits == Range(HexUpper) \cup Range(HexLower)
IsHexChar(c) == c \in HexDigits
\* the value of each hex digit
HexVals ==
  [c \in HexDigits |->
     IF InSeq(HexUpper, c) THEN IndexOf(HexUpper, c) - 1
     ELSE IndexOf(HexLower, c) - 1]
HexVal(c) == HexVals[c]

\* hex.decode(text) succeeds on an even number of hex digits of either case
HexDecodable(text) ==
  /\ Len(text) % 2 = 0
  /\ \A i \in 1..Len(text) : IsHexChar(text[i])

HexDecode(text) ==
  [i \in 1..(Len(text) \div 2) |->
     16 * HexVal(text[2 * i - 1]) + HexVal(text[2 * i])]

Base64Alphabet ==
  UpperLetters \o LowerLetters \o DigitChars \o <<"+", "/">>

RECURSIVE Base64Encode(_)
\* base64.encode(bytes) / Buffer.from(..).toString('base64'), with padding
Base64Encode(bytes) ==
  IF Len(bytes) = 0 THEN <<>>
  ELSE IF Len(bytes) = 1 THEN
    << Base64Alphabet[(bytes[1] \div 4) + 1],
       Base64Alphabet[((bytes[1] % 4) * 16) + 1], "=", "=" >>
  ELSE IF Len(bytes) = 2 THEN
    << Base64Alphabet[(bytes[1] \div 4) + 1],
       Base64Alphabet[((bytes[1] % 4) * 16) + (bytes[2] \div 16) + 1],
       Base64Alphabet[((bytes[2] % 16) * 4) + 1], "=" >>
  ELSE
    << Base64Alphabet[(bytes[1] \div 4) + 1],
       Base64Alphabet[((bytes[1] % 4) * 16) + (bytes[2] \div 16) + 1],
       Base64Alphabet[((bytes[2] % 16) * 4) + (bytes[3] \div 64) + 1],
       Base64Alphabet[(bytes[3] % 64) + 1] >>
    \o Base64Encode(SubSeq(bytes, 4, Len(bytes)))

(***************************************************************************)
(* @stablelib/ed25519.  The curve arithmetic is replaced by injective      *)
(* stand-ins: a public key is a fixed 32-byte image of the seed, a         *)
(* signature is the pair of the signing key and the signed bytes.          *)
(***************************************************************************)
SEED_LENGTH == 32
PUBLIC_KEY_LENGTH == 32

\* 32-byte seeds the callers supply
Seed(n) == [i \in 1..SEED_LENGTH |-> (n * 16 + i) % 256]
Seeds == {Seed(n) : n \in 1..NumSeeds}

\* the public key of a seed (stand-in for scalar multiplication)
PublicKeyOfSeed(seed) == [i \in 1..PUBLIC_KEY_LENGTH |-> (seed[i] * 7 + 3) % 256]

\* ed25519.generateKeyPairFromSeed(seed): secretKey is seed || publicKey
generateKeyPairFromSeed(seed) ==
  [publicKey |-> PublicKeyOfSeed(seed),
   secretKey |-> seed \o PublicKeyOfSeed(seed)]

\* convertPublicKeyToX25519(publicKey) (stand-in for the birational map)
convertPublicKeyToX25519(publicKey) ==
  [i \in 1..Len(publicKey) |-> 255 - publicKey[i]]

\* ed25519.sign(secretKey, message)
Sign(secretKey, message) == [signer |-> secretKey, message |-> message]

\* ed25519.verify(publicKey, message, signature)
Verify(publicKey, message, signature) ==
  /\ signature.message = message
  /\ SubSeq(signature.signer, SEED_LENGTH + 1, SEED_LENGTH + PUBLIC_KEY_LENGTH) = publicKey

\* base64.encode(signature) of a 64-byte signature
SignatureBase64(signature) == [base64 |-> signature]
SignatureOf(sigB64) == sigB64.base64

(***************************************************************************)
(* CryptoUtils                                                             *)
(***************************************************************************)
TOKEN_LENGTH == 36

\* new CryptoUtils(seed) for a 32-byte seed
CryptoUtils(seed) == generateKeyPairFromSeed(seed)

\* new CryptoUtils(): a random key pair is the key pair of some seed
RandomKeyPairs == {generateKeyPairFromSeed(s) : s \in Seeds}

\* variant: a seed of no bytes counts as no seed
CryptoUtilsConstructor_EmptyIsAbsent(seedArg) ==
  IF seedArg # <<>> /\ Len(seedArg[1]) > 0
  THEN IF Len(seedArg[1]) # SEED_LENGTH
       THEN {[error |-> "Error"]}
       ELSE {[keyPair |-> generateKeyPairFromSeed(seedArg[1])]}
  ELSE {[keyPair |-> kp] : kp \in RandomKeyPairs}

\* variant: the key pair is random whether or not a seed is given
CryptoUtilsConstructor_SeedIgnored(seedArg) ==
  IF seedArg # <<>> /\ Len(seedArg[1]) # SEED_LENGTH
  THEN {[error |-> "Error"]}
  ELSE {[keyPair |-> kp] : kp \in RandomKeyPairs}

\* new CryptoUtils(seed?), as the set of its outcomes.  Any Uint8Array is
\* truthy, the empty one included, so every given seed reaches
\* ed25519.generateKeyPairFromSeed, which throws an Error unless the seed is
\* SEED_LENGTH bytes long; without a seed the key pair is random.
CryptoUtilsConstructor(seedArg) ==
  IF seedArg # <<>>
  THEN IF Len(seedArg[1]) # SEED_LENGTH
       THEN {[error |-> "Error"]}
       ELSE {[keyPair |-> generateKeyPairFromSeed(seedArg[1])]}
  ELSE {[keyPair |-> kp] : kp \in RandomKeyPairs}

\* hex.encode of a public key.  The keys of the seeds are encoded once and
\* looked up afterwards; any other key is encoded on the spot.
SeedKeys ==
  {PublicKeyOfSeed(s) : s \in Seeds}
    \cup {convertPublicKeyToX25519(PublicKeyOfSeed(s)) : s \in Seeds}
SeedKeysHex == [k \in SeedKeys |-> HexEncode(k)]
HexEncodeKey(key) ==
  IF key \in SeedKeys THEN SeedKeysHex[key] ELSE HexEncode(key)

getPublicKeyHex(kp) == HexEncodeKey(kp.publicKey)

getX25519PublicKeyHex(kp) == HexEncodeKey(convertPublicKeyToX25519(kp.publicKey))

\* the signing step shared by every sign method: sign the UTF-8 bytes of
\* the message with the instance's secret key and base64 the signature
signMessage(kp, message) ==
  SignatureBase64(Sign(kp.secretKey, TextEncode(message)))

\* mutant: the store message drops a zero namespace as retrieve does
signStoreMessage_OmitZero(namespace, sigTimestamp) ==
  <<"s","t","o","r","e">>
    \o (IF namespace = 0 THEN <<>> ELSE NumberToString(namespace))
    \o NumberToString(sigTimestamp)

signStoreMessage(namespace, sigTimestamp) ==
  <<"s","t","o","r","e">> \o NumberToString(namespace) \o NumberToString(sigTimestamp)

\* mutant: the timestamp is put in front of the namespace
signStoreMessageWide_TimestampFirst(namespace, sigTimestamp) ==
  <<"s","t","o","r","e">> \o WideNumberToString(sigTimestamp)
    \o NumberToString(namespace)

\* the store message for a timestamp written as <<high, low>>
signStoreMessageWide(namespace, sigTimestamp) ==
  <<"s","t","o","r","e">> \o NumberToString(namespace)
    \o WideNumberToString(sigTimestamp)

signStore(kp, namespace, sigTimestamp) ==
  signMessage(kp, signStoreMessage(namespace, sigTimestamp))

signRetrieveMessage(namespace, timestamp) ==
  LET namespaceStr == IF namespace = 0 THEN <<>> ELSE NumberToString(namespace)
  IN  <<"r","e","t","r","i","e","v","e">> \o namespaceStr \o NumberToString(timestamp)

signRetrieve(kp, namespace, timestamp) ==
  signMessage(kp, signRetrieveMessage(namespace, timestamp))

\* a list without its repeated entries
RECURSIVE Dedup(_)
Dedup(strs) ==
  IF strs = <<>> THEN <<>>
  ELSE LET front == Dedup(SubSeq(strs, 1, Len(strs) - 1))
           x == strs[Len(strs)]
       IN  IF InSeq(front, x) THEN front ELSE Append(front, x)

\* mutant: repeated hashes are signed once
signDeleteMessage_Dedup(messages) ==
  <<"d","e","l","e","t","e">> \o Join(Dedup(messages))

signDeleteMessage(messages) ==
  <<"d","e","l","e","t","e">> \o Join(messages)

signDelete(kp, messages) == signMessage(kp, signDeleteMessage(messages))

\* mutant: the namespace is always rendered
signDeleteAllMessage_RenderZero(namespace, timestamp) ==
  <<"d","e","l","e","t","e","_","a","l","l">> \o NumberToString(namespace)
    \o NumberToString(timestamp)

signDeleteAllMessage(namespace, timestamp) ==
  LET namespaceStr == IF namespace = 0 THEN <<>> ELSE NumberToString(namespace)
  IN  <<"d","e","l","e","t","e","_","a","l","l">> \o namespaceStr
        \o NumberToString(timestamp)

signDeleteAll(kp, namespace, timestamp) ==
  signMessage(kp, signDeleteAllMessage(namespace, timestamp))

\* namespace is optional here: <<>> is undefined
signExpireAllMessage(namespace, expiry) ==
  LET namespaceStr == IF namespace = <<>> \/ namespace = <<0>> THEN <<>>
                      ELSE NumberToString(namespace[1])
  IN  <<"e","x","p","i","r","e","_","a","l","l">> \o namespaceStr
        \o NumberToString(expiry)

signExpireAll(kp, namespace, expiry) ==
  signMessage(kp, signExpireAllMessage(namespace, expiry))

\* an optional boolean is truthy when it is present and true
Truthy(opt) == opt = <<TRUE>>

\* mutant: extend is tested before shorten
signExpireMsgsMessage_ExtendFirst(messages, expiry, shorten, extend) ==
  LET shortenOrExtend ==
        IF Truthy(extend) THEN <<"e","x","t","e","n","d">>
        ELSE IF Truthy(shorten) THEN <<"s","h","o","r","t","e","n">>
        ELSE <<>>
  IN  <<"e","x","p","i","r","e">> \o shortenOrExtend \o NumberToString(expiry)
        \o Join(messages)

\* shorten and extend are optional booleans
signExpireMsgsMessage(messages, expiry, shorten, extend) ==
  LET shortenOrExtend ==
        IF Truthy(shorten) THEN <<"s","h","o","r","t","e","n">>
        ELSE IF Truthy(extend) THEN <<"e","x","t","e","n","d">>
        ELSE <<>>
  IN  <<"e","x","p","i","r","e">> \o shortenOrExtend \o NumberToString(expiry)
        \o Join(messages)

signExpireMsgs(kp, messages, expiry, shorten, extend) ==
  signMessage(kp, signExpireMsgsMessage(messages, expiry, shorten, extend))

\* mutant: the token is put in front of the operation name
signRevokeSubaccountMessage_TokenFirst(subaccountToken) ==
  subaccountToken
    \o <<"r","e","v","o","k","e","_","s","u","b","a","c","c","o","u","n","t">>

signRevokeSubaccountMessage(subaccountToken) ==
  <<"r","e","v","o","k","e","_","s","u","b","a","c","c","o","u","n","t">>
    \o subaccountToken

signRevokeSubaccount(kp, subaccountToken) ==
  signMessage(kp, signRevokeSubaccountMessage(subaccountToken))

signUnrevokeSubaccountMessage(timestamp, subaccounts) ==
  <<"u","n","r","e","v","o","k","e","_","s","u","b","a","c","c","o","u","n","t">>
    \o NumberToString(timestamp) \o Join(subaccounts)

signUnrevokeSubaccount(kp, timestamp, subaccounts) ==
  signMessage(kp, signUnrevokeSubaccountMessage(timestamp, subaccounts))

\* a store into a Uint8Array keeps the low eight bits
ToUint8(n) == n % 256

\* mutant: the token is the header followed by the key, whatever its length
TokenBytes_Unpadded(networkPrefix, permissions, key) ==
  <<ToUint8(networkPrefix), ToUint8(permissions), 0, 0>> \o key

\* the 36-byte token: prefix, permissions, two reserved bytes, then the
\* key; token.set(key, 4) leaves the tail zero when the key is short
TokenBytes(networkPrefix, permissions, key) ==
  [i \in 1..TOKEN_LENGTH |->
     IF i = 1 THEN ToUint8(networkPrefix)
     ELSE IF i = 2 THEN ToUint8(permissions)
     ELSE IF i <= 4 THEN 0
     ELSE IF i - 4 <= Len(key) THEN key[i - 4]
     ELSE 0]

generateSubaccountToken(kp, permissions, networkPrefix) ==
  HexEncode(TokenBytes(networkPrefix, permissions, kp.publicKey))

\* token.set(targetPubkey, 4) throws a RangeError when the key does not fit
BlindedTokenThrows(targetPubkey) == 4 + Len(targetPubkey) > TOKEN_LENGTH

\* mutant: the permission byte is written before the prefix byte
generateBlindedSubaccountToken_Swapped(targetPubkey, permissions, networkPrefix) ==
  [token |-> HexEncode(TokenBytes(permissions, networkPrefix, targetPubkey)),
   blindedPubkey |-> targetPubkey]

generateBlindedSubaccountToken(targetPubkey, permissions, networkPrefix) ==
  [token |-> HexEncode(TokenBytes(networkPrefix, permissions, targetPubkey)),
   blindedPubkey |-> targetPubkey]

\* mutant: the owner signs the hex text of the token
signSubaccountToken_HexText(kp, subaccountToken) ==
  SignatureBase64(Sign(kp.secretKey, TextEncode(subaccountToken)))

\* the owner signs the decoded token bytes, not the hex text
signSubaccountToken(kp, subaccountToken) ==
  SignatureBase64(Sign(kp.secretKey, HexDecode(subaccountToken)))

(***************************************************************************)
(* PostmanParamsGenerator: state                                           *)
(***************************************************************************)
VARIABLES
  crypto,       \* this.crypto: the key pair of the generator's CryptoUtils
  isSessionId,  \* this.isSessionId
  last          \* the last call: its name, its arguments and what it returned

vars == <<crypto, isSessionId, last>>

(***************************************************************************)
(* Inputs                                                                  *)
(***************************************************************************)
Namespaces == {-10, 0, 5}
NamespaceArgs == {<<>>} \cup {<<n>> : n \in Namespaces}
\* Date.now()
Times == 1..MaxTime
ExpiryArgs == {<<>>} \cup {<<e>> : e \in Times}
FlagArgs == {<<>>, <<TRUE>>, <<FALSE>>}
Hashes == {<<"a">>, <<"b">>}
HashLists == UNION {[1..n -> Hashes] : n \in 0..MaxHashes}
\* the longest lists
LongHashLists == {l \in HashLists : Len(l) = MaxHashes}
\* the longest lists in which neighbours differ: each is another's reversal
\* or rotation
OrderedHashLists ==
  {l \in LongHashLists : \A i \in 1..(Len(l) - 1) : l[i] # l[i + 1]}
Permissions == {1, 15}
NetworkPrefixes == {0, 5}
\* networkPrefix left to its default of 5, or given as 0
PrefixArgs == {<<>>, <<0>>}
\* the keys handed to generateSubaccountDelegation: the delegates' public
\* keys, one key a byte short and one a byte long
TargetKeys ==
  {PublicKeyOfSeed(s) : s \in Seeds}
    \cup {[i \in 1..(PUBLIC_KEY_LENGTH - 1) |-> 9], [i \in 1..(PUBLIC_KEY_LENGTH + 1) |-> 9]}
\* a token and an owner signature that no generator of the model issued
ForeignKeyPair == generateKeyPairFromSeed([i \in 1..SEED_LENGTH |-> 200])
ForeignToken == HexEncode(TokenBytes(0, 1, ForeignKeyPair.publicKey))
ForeignDelegation ==
  [subaccountToken |-> ForeignToken,
   subaccountSignature |-> signSubaccountToken(ForeignKeyPair, ForeignToken)]

\* the token lists handed to signUnrevokeSubaccount: two tokens in both
\* orders, and one alone
SecondToken == HexEncode(TokenBytes(5, 15, PublicKeyOfSeed(Seed(1))))
TokenLists ==
  {<<ForeignToken, SecondToken>>, <<SecondToken, ForeignToken>>, <<SecondToken>>}

\* the seed of owner-example.ts and the timestamp of the documented store
\* request, 1753933969153; another timestamp whose low part needs padding
ExampleSeedHex ==
  <<"6","1","0","9","8","7","A","8","D","F","B","7","9","B","C","F",
    "E","6","3","5","A","1","4","C","F","A","1","F","2","2","D","9",
    "D","4","B","F","2","A","2","8","A","9","A","7","0","7","D","1",
    "9","C","F","2","F","F","C","0","3","A","A","5","9","F","1","6">>
ExampleSeed == HexDecode(ExampleSeedHex)
ExampleTimestamp == <<1753, 933969153>>
WideTimes == {ExampleTimestamp, <<1753, 5>>, <<0, 7>>}

\* the methods generateRequestBody has a case for
SwitchCases ==
  {"store", "retrieve", "delete", "delete_all", "get_swarm", "get_expiries",
   "get_stats"}

\* the methods asked of generateRequestBody: its cases, two methods of
\* printAllParams it has no case for, and a name no generator has
Methods == SwitchCases \cup {"update", "get_messages", "frobnicate"}
CustomParamsArgs == {<<>>, <<[note |-> 1]>>}

DEFAULT_TTL == 86400000
DefaultData == <<"H","e","l","l","o"," ","W","o","r","l","d","!">>
UpdatedData == <<"U","p","d","a","t","e","d"," ","d","a","t","a","!">>

NoFields == [k \in {} |-> 0]

(***************************************************************************)
(* PostmanParamsGenerator: accessors and helpers                           *)
(***************************************************************************)
getPublicKey(kp) == <<"0","0">> \o getPublicKeyHex(kp)
getPublicKeyTestnet(kp) == <<"0","0">> \o getPublicKeyHex(kp)
getPublicKeyMainnet(kp) == <<"0","5">> \o getPublicKeyHex(kp)
getPublicKeyNoPrefix(kp) == getPublicKeyHex(kp)
getX25519PublicKeyNoPrefix(kp) == getX25519PublicKeyHex(kp)

\* Buffer.from(data).toString('base64')
encodeData(data) == Base64Encode(TextEncode(data))

\* mutant: the Session ID is the bare X25519 key
RequestPubkey_NoPrefix(kp, sessionId) ==
  IF sessionId THEN getX25519PublicKeyNoPrefix(kp) ELSE getPublicKey(kp)

\* variant: the Session ID is 05 and the Ed25519 key
RequestPubkey_MainnetKey(kp, sessionId) ==
  IF sessionId THEN getPublicKeyMainnet(kp) ELSE getPublicKey(kp)

\* this.isSessionId ? `05${X25519}` : this.getPublicKey()
RequestPubkey(kp, sessionId) ==
  IF sessionId THEN <<"0","5">> \o getX25519PublicKeyNoPrefix(kp)
  ELSE getPublicKey(kp)

\* mutant: pubkey_ed25519 is never added
SessionFields_Never(kp, sessionId) == NoFields

\* ...(this.isSessionId && { pubkey_ed25519: this.getPublicKeyNoPrefix() })
SessionFields(kp, sessionId) ==
  IF sessionId THEN [pubkey_ed25519 |-> getPublicKeyNoPrefix(kp)] ELSE NoFields

\* seedToSessionId(seed) of the seed-phrase tool
seedToSessionId(seed) ==
  <<"0","5">> \o HexEncodeLower(convertPublicKeyToX25519(generateKeyPairFromSeed(seed).publicKey))

(***************************************************************************)
(* PostmanParamsGenerator: the requests                                    *)
(***************************************************************************)
getStoreParams(kp, sessionId, timestamp, data, ttl, namespace) ==
  [method |-> "store",
   params |->
     [pubkey |-> RequestPubkey(kp, sessionId), timestamp |-> timestamp,
      ttl |-> ttl, data |-> encodeData(data), namespace |-> namespace]
     @@ (IF namespace # -10
         THEN [signature |-> signStore(kp, namespace, timestamp)] ELSE NoFields)
     @@ SessionFields(kp, sessionId)]

getRetrieveParams(kp, sessionId, timestamp, namespace) ==
  [method |-> "retrieve",
   params |->
     [pubkey |-> RequestPubkey(kp, sessionId), namespace |-> namespace,
      max_count |-> 100, max_size |-> -5, timestamp |-> timestamp]
     @@ (IF namespace # -10
         THEN [signature |-> signRetrieve(kp, namespace, timestamp)] ELSE NoFields)
     @@ SessionFields(kp, sessionId)]

getDeleteParams(kp, sessionId, messages) ==
  [method |-> "delete",
   params |->
     [pubkey |-> RequestPubkey(kp, sessionId), messages |-> messages,
      required |-> TRUE, signature |-> signDelete(kp, messages)]
     @@ SessionFields(kp, sessionId)]

getDeleteAllParams(kp, sessionId, timestamp, namespace) ==
  [method |-> "delete_all",
   params |->
     [pubkey |-> RequestPubkey(kp, sessionId), namespace |-> namespace,
      timestamp |-> timestamp,
      signature |-> signDeleteAll(kp, namespace, timestamp)]
     @@ SessionFields(kp, sessionId)]

getUpdateParams(kp, sessionId, timestamp, newData, messageHash) ==
  LET encodedData == encodeData(newData)
      message == <<"u","p","d","a","t","e">> \o NumberToString(timestamp)
                   \o messageHash \o encodedData
  IN  [method |-> "update",
       params |->
         [pubkey |-> RequestPubkey(kp, sessionId), messages |-> <<messageHash>>,
          data |-> encodedData, signature |-> signMessage(kp, message)]
         @@ SessionFields(kp, sessionId)]

getSwarmParams(kp) ==
  [method |-> "get_swarm", params |-> [pubkey |-> getPublicKey(kp)]]

getMessagesParams(kp, sessionId, timestamp) ==
  LET message == <<"g","e","t","_","m","e","s","s","a","g","e","s">>
                   \o NumberToString(timestamp)
  IN  [method |-> "get_messages",
       params |->
         [pubkey |-> RequestPubkey(kp, sessionId),
          signature |-> signMessage(kp, message)]
         @@ SessionFields(kp, sessionId)]

getExpiriesMessage(timestamp, messages) ==
  <<"g","e","t","_","e","x","p","i","r","i","e","s">>
    \o NumberToString(timestamp) \o Join(messages)

getExpiriesParams(kp, sessionId, timestamp, messages) ==
  [method |-> "get_expiries",
   params |->
     [pubkey |-> RequestPubkey(kp, sessionId), messages |-> messages,
      timestamp |-> timestamp,
      signature |-> signMessage(kp, getExpiriesMessage(timestamp, messages))]
     @@ SessionFields(kp, sessionId)]

\* variant: the request drops a namespace of 0 as the signed message does
getExpireAllParams_ZeroDropped(kp, sessionId, expiry, namespace) ==
  [method |-> "expire_all",
   params |->
     [pubkey |-> RequestPubkey(kp, sessionId), expiry |-> expiry,
      signature |-> signExpireAll(kp, namespace, expiry)]
     @@ SessionFields(kp, sessionId)
     @@ (IF namespace # <<>> /\ namespace # <<0>>
         THEN [namespace |-> namespace[1]] ELSE NoFields)]

\* namespace is optional: it is in the params only when it was given
getExpireAllParams(kp, sessionId, expiry, namespace) ==
  [method |-> "expire_all",
   params |->
     [pubkey |-> RequestPubkey(kp, sessionId), expiry |-> expiry,
      signature |-> signExpireAll(kp, namespace, expiry)]
     @@ SessionFields(kp, sessionId)
     @@ (IF namespace # <<>> THEN [namespace |-> namespace[1]] ELSE NoFields)]

getExpireMsgsParams(kp, sessionId, messages, expiry, shorten, extend) ==
  [method |-> "expire",
   params |->
     [pubkey |-> RequestPubkey(kp, sessionId), messages |-> messages,
      expiry |-> expiry,
      signature |-> signExpireMsgs(kp, messages, expiry, shorten, extend)]
     @@ SessionFields(kp, sessionId)
     @@ (IF shorten # <<>> THEN [shorten |-> shorten[1]] ELSE NoFields)
     @@ (IF extend # <<>> THEN [extend |-> extend[1]] ELSE NoFields)]

getRevokeSubaccountParams(kp, sessionId, timestamp, subaccountToken) ==
  [method |-> "revoke_subaccount",
   params |->
     [pubkey |-> RequestPubkey(kp, sessionId), revoke |-> subaccountToken,
      signature |-> signRevokeSubaccount(kp, subaccountToken),
      timestamp |-> timestamp]
     @@ SessionFields(kp, sessionId)]

\* hex.decode of the target key, the token, then the owner's signature
generateSubaccountDelegation(kp, targetPubkeyHex, permissions, networkPrefix) ==
  LET targetPubkey == HexDecode(targetPubkeyHex)
      result == generateBlindedSubaccountToken(targetPubkey, permissions, networkPrefix)
  IN  [subaccountToken |-> result.token,
       subaccountSignature |-> signSubaccountToken(kp, result.token)]

\* mutant: the owner's CryptoUtils signs the delegated store
getStoreParamsWithSubaccount_OwnerSigns(kp, timestamp, data, ttl, namespace, subaccountToken, subaccountSignature, subaccountCrypto) ==
  [method |-> "store",
   params |->
     [pubkey |-> getPublicKey(kp), timestamp |-> timestamp, ttl |-> ttl,
      data |-> encodeData(data), namespace |-> namespace,
      subaccount |-> subaccountToken, subaccount_sig |-> subaccountSignature]
     @@ (IF namespace # -10
         THEN [signature |-> signStore(kp, namespace, timestamp)]
         ELSE NoFields)]

getStoreParamsWithSubaccount(kp, timestamp, data, ttl, namespace, subaccountToken, subaccountSignature, subaccountCrypto) ==
  [method |-> "store",
   params |->
     [pubkey |-> getPublicKey(kp), timestamp |-> timestamp, ttl |-> ttl,
      data |-> encodeData(data), namespace |-> namespace,
      subaccount |-> subaccountToken, subaccount_sig |-> subaccountSignature]
     @@ (IF namespace # -10
         THEN [signature |-> signStore(subaccountCrypto, namespace, timestamp)]
         ELSE NoFields)]

\* mutant: the owner's grant signature is reused as the request signature
getRetrieveParamsWithSubaccount_ReusesGrant(kp, timestamp, namespace, subaccountToken, subaccountSignature, subaccountCrypto) ==
  [method |-> "retrieve",
   params |->
     [pubkey |-> getPublicKey(kp), namespace |-> namespace,
      max_count |-> 100, max_size |-> -5, timestamp |-> timestamp,
      subaccount |-> subaccountToken, subaccount_sig |-> subaccountSignature]
     @@ (IF namespace # -10
         THEN [signature |-> subaccountSignature]
         ELSE NoFields)]

getRetrieveParamsWithSubaccount(kp, timestamp, namespace, subaccountToken, subaccountSignature, subaccountCrypto) ==
  [method |-> "retrieve",
   params |->
     [pubkey |-> getPublicKey(kp), namespace |-> namespace,
      max_count |-> 100, max_size |-> -5, timestamp |-> timestamp,
      subaccount |-> subaccountToken, subaccount_sig |-> subaccountSignature]
     @@ (IF namespace # -10
         THEN [signature |-> signRetrieve(subaccountCrypto, namespace, timestamp)]
         ELSE NoFields)]

\* variant: the delegated delete follows the session mode as the plain one does
getDeleteParamsWithSubaccount_FollowsMode(kp, messages, subaccountToken, subaccountSignature, subaccountCrypto) ==
  [method |-> "delete",
   params |->
     [pubkey |-> RequestPubkey(kp, isSessionId), messages |-> messages,
      required |-> TRUE, signature |-> signDelete(subaccountCrypto, messages),
      subaccount |-> subaccountToken, subaccount_sig |-> subaccountSignature]
     @@ SessionFields(kp, isSessionId)]

getDeleteParamsWithSubaccount(kp, messages, subaccountToken, subaccountSignature, subaccountCrypto) ==
  [method |-> "delete",
   params |->
     [pubkey |-> getPublicKey(kp), messages |-> messages, required |-> TRUE,
      signature |-> signDelete(subaccountCrypto, messages),
      subaccount |-> subaccountToken, subaccount_sig |-> subaccountSignature]]

\* the default arguments of getDeleteParams and getExpiriesParams
TestHash1 == <<"t","e","s","t","_","h","a","s","h","_","1">>
TestHash2 == <<"t","e","s","t","_","h","a","s","h","_","2">>

getStatsParams == [method |-> "get_stats", params |-> NoFields]

\* each case calls the method's generator with its default arguments and puts
\* what it returns, method and params, under params; the default case takes
\* customParams || {}
generateRequestBody(kp, sessionId, timestamp, method, customParams) ==
  [method |-> method,
   params |->
     CASE method = "store" ->
            getStoreParams(kp, sessionId, timestamp, DefaultData, DEFAULT_TTL, 0)
       [] method = "retrieve" -> getRetrieveParams(kp, sessionId, timestamp, 0)
       [] method = "delete" ->
            getDeleteParams(kp, sessionId, <<TestHash1, TestHash2>>)
       [] method = "delete_all" -> getDeleteAllParams(kp, sessionId, timestamp, 0)
       [] method = "get_swarm" -> getSwarmParams(kp)
       [] method = "get_expiries" ->
            getExpiriesParams(kp, sessionId, timestamp, <<TestHash1>>)
       [] method = "get_stats" -> getStatsParams
       [] OTHER -> IF customParams # <<>> THEN customParams[1] ELSE NoFields]

(***************************************************************************)
(* Calls                                                                   *)
(***************************************************************************)
\* seeds of a wrong length, which ed25519.generateKeyPairFromSeed rejects
BadSeeds == {<<>>, [i \in 1..(SEED_LENGTH - 1) |-> 1]}
SeedArgs == Seeds \cup BadSeeds
\* the optional seed of the constructors
OptionalSeedArgs == {<<>>} \cup {<<seed>> : seed \in SeedArgs}

\* the delegation a caller passes on: the one the generator has just
\* returned, or a foreign one
DelegationInputs ==
  {ForeignDelegation}
    \cup (IF last.op = "generateSubaccountDelegation" /\ "result" \in DOMAIN last
         THEN {last.result} ELSE {})

Init ==
  /\ crypto \in RandomKeyPairs
  /\ isSessionId \in BOOLEAN
  /\ last = [op |-> "constructor"]

\* variant: a new key pair puts the generator back into regular mode
SetCrypto_ResetsMode ==
  \E seed \in SeedArgs :
  \E made \in CryptoUtilsConstructor(<<seed>>) :
    IF "error" \in DOMAIN made
    THEN /\ last' = [op |-> "setCrypto", seed |-> seed, error |-> made.error]
         /\ UNCHANGED <<crypto, isSessionId>>
    ELSE /\ crypto' = made.keyPair
         /\ isSessionId' = FALSE
         /\ last' = [op |-> "setCrypto", seed |-> seed]

SetCrypto ==
  \E seed \in SeedArgs :
  \E made \in CryptoUtilsConstructor(<<seed>>) :
    /\ IF "error" \in DOMAIN made
       THEN /\ UNCHANGED crypto
            /\ last' = [op |-> "setCrypto", seed |-> seed, error |-> made.error]
       ELSE /\ crypto' = made.keyPair
            /\ last' = [op |-> "setCrypto", seed |-> seed]
    /\ UNCHANGED isSessionId

\* new CryptoUtils(seed?) for an instance of its own
NewCryptoUtils ==
  \E seedArg \in OptionalSeedArgs :
  \E made \in CryptoUtilsConstructor(seedArg) :
    /\ last' = IF "error" \in DOMAIN made
               THEN [op |-> "CryptoUtils", seedArg |-> seedArg,
                     error |-> made.error]
               ELSE [op |-> "CryptoUtils", seedArg |-> seedArg,
                     result |-> made.keyPair]
    /\ UNCHANGED <<crypto, isSessionId>>

\* CryptoUtils.fromSeed(seed)
FromSeed ==
  \E seed \in SeedArgs :
  \E made \in CryptoUtilsConstructor(<<seed>>) :
    /\ last' = IF "error" \in DOMAIN made
               THEN [op |-> "fromSeed", seed |-> seed, error |-> made.error]
               ELSE [op |-> "fromSeed", seed |-> seed, result |-> made.keyPair]
    /\ UNCHANGED <<crypto, isSessionId>>

\* CryptoUtils.fromEd25519KeyPair(publicKey, secretKey): the new instance
\* holds the two keys as given
FromEd25519KeyPair ==
  \E given \in RandomKeyPairs, other \in RandomKeyPairs :
    /\ last' = [op |-> "fromEd25519KeyPair", publicKey |-> given.publicKey,
                secretKey |-> other.secretKey,
                result |-> [publicKey |-> given.publicKey,
                            secretKey |-> other.secretKey]]
    /\ UNCHANGED <<crypto, isSessionId>>

\* CryptoUtils.fromX25519KeyPair(publicKey, secretKey): the new instance
\* holds the Ed25519 key pair whose seed is secretKey
FromX25519KeyPair ==
  \E given \in RandomKeyPairs, secretKey \in SeedArgs :
  \E made \in CryptoUtilsConstructor(<<secretKey>>) :
    LET publicKey == convertPublicKeyToX25519(given.publicKey)
    IN  /\ last' = IF "error" \in DOMAIN made
                   THEN [op |-> "fromX25519KeyPair", publicKey |-> publicKey,
                         secretKey |-> secretKey, error |-> made.error]
                   ELSE [op |-> "fromX25519KeyPair", publicKey |-> publicKey,
                         secretKey |-> secretKey, result |-> made.keyPair]
        /\ UNCHANGED <<crypto, isSessionId>>

\* new PostmanParamsGenerator(seed?, isSessionId) for another generator
NewPostmanParamsGenerator ==
  \E seedArg \in OptionalSeedArgs, mode \in BOOLEAN :
  \E made \in CryptoUtilsConstructor(seedArg) :
    /\ last' = IF "error" \in DOMAIN made
               THEN [op |-> "PostmanParamsGenerator", seedArg |-> seedArg,
                     error |-> made.error]
               ELSE [op |-> "PostmanParamsGenerator", seedArg |-> seedArg,
                     result |-> [crypto |-> made.keyPair, isSessionId |-> mode]]
    /\ UNCHANGED <<crypto, isSessionId>>

SetSessionIdMode ==
  \E mode \in BOOLEAN :
    /\ isSessionId' = mode
    /\ last' = [op |-> "setSessionIdMode", isSessionId |-> mode]
    /\ UNCHANGED crypto

GetSessionIdMode ==
  /\ last' = [op |-> "getSessionIdMode", result |-> isSessionId]
  /\ UNCHANGED <<crypto, isSessionId>>

GetPublicKey ==
  /\ last' = [op |-> "getPublicKey", result |-> getPublicKey(crypto)]
  /\ UNCHANGED <<crypto, isSessionId>>

GetPublicKeyTestnet ==
  /\ last' = [op |-> "getPublicKeyTestnet", result |-> getPublicKeyTestnet(crypto)]
  /\ UNCHANGED <<crypto, isSessionId>>

GetPublicKeyMainnet ==
  /\ last' = [op |-> "getPublicKeyMainnet", result |-> getPublicKeyMainnet(crypto)]
  /\ UNCHANGED <<crypto, isSessionId>>

GetPublicKeyNoPrefix ==
  /\ last' = [op |-> "getPublicKeyNoPrefix", result |-> getPublicKeyNoPrefix(crypto)]
  /\ UNCHANGED <<crypto, isSessionId>>

GetX25519PublicKeyNoPrefix ==
  /\ last' = [op |-> "getX25519PublicKeyNoPrefix",
              result |-> getX25519PublicKeyNoPrefix(crypto)]
  /\ UNCHANGED <<crypto, isSessionId>>

SeedToSessionId ==
  \E seed \in Seeds :
    /\ last' = [op |-> "seedToSessionId", seed |-> seed,
                result |-> seedToSessionId(seed)]
    /\ UNCHANGED <<crypto, isSessionId>>

\* namespace defaults to 0
GetStoreParams ==
  \E namespaceArg \in NamespaceArgs, now \in Times :
    LET namespace == IF namespaceArg = <<>> THEN 0 ELSE namespaceArg[1]
        result == getStoreParams(crypto, isSessionId, now, DefaultData,
                                 DEFAULT_TTL, namespace)
    IN  /\ last' = [op |-> "getStoreParams", namespaceArg |-> namespaceArg,
                    now |-> now, result |-> result]
        /\ UNCHANGED <<crypto, isSessionId>>

GetRetrieveParams ==
  \E namespaceArg \in NamespaceArgs, now \in Times :
    LET namespace == IF namespaceArg = <<>> THEN 0 ELSE namespaceArg[1]
        result == getRetrieveParams(crypto, isSessionId, now, namespace)
    IN  /\ last' = [op |-> "getRetrieveParams", namespaceArg |-> namespaceArg,
                    now |-> now, result |-> result]
        /\ UNCHANGED <<crypto, isSessionId>>

GetDeleteParams ==
  \E messages \in HashLists :
    LET result == getDeleteParams(crypto, isSessionId, messages)
    IN  /\ last' = [op |-> "getDeleteParams", messages |-> messages,
                    result |-> result]
        /\ UNCHANGED <<crypto, isSessionId>>

GetDeleteAllParams ==
  \E namespaceArg \in NamespaceArgs, now \in Times :
    LET namespace == IF namespaceArg = <<>> THEN 0 ELSE namespaceArg[1]
        result == getDeleteAllParams(crypto, isSessionId, now, namespace)
    IN  /\ last' = [op |-> "getDeleteAllParams", namespaceArg |-> namespaceArg,
                    now |-> now, result |-> result]
        /\ UNCHANGED <<crypto, isSessionId>>

GetUpdateParams ==
  \E messageHash \in Hashes, now \in Times :
    LET result == getUpdateParams(crypto, isSessionId, now, UpdatedData, messageHash)
    IN  /\ last' = [op |-> "getUpdateParams", messageHash |-> messageHash,
                    now |-> now, result |-> result]
        /\ UNCHANGED <<crypto, isSessionId>>

GetSwarmParams ==
  /\ last' = [op |-> "getSwarmParams", result |-> getSwarmParams(crypto)]
  /\ UNCHANGED <<crypto, isSessionId>>

GetMessagesParams ==
  \E now \in Times :
    LET result == getMessagesParams(crypto, isSessionId, now)
    IN  /\ last' = [op |-> "getMessagesParams", now |-> now, result |-> result]
        /\ UNCHANGED <<crypto, isSessionId>>

GetExpiriesParams ==
  \E messages \in LongHashLists, now \in Times :
    LET result == getExpiriesParams(crypto, isSessionId, now, messages)
    IN  /\ last' = [op |-> "getExpiriesParams", messages |-> messages,
                    now |-> now, result |-> result]
        /\ UNCHANGED <<crypto, isSessionId>>

\* expiry defaults to Date.now() + 86400000; the clock is read only then
GetExpireAllParams ==
  \E expiryArg \in ExpiryArgs, namespaceArg \in NamespaceArgs :
  \E now \in IF expiryArg = <<>> THEN Times ELSE {1} :
    LET expiry == IF expiryArg = <<>> THEN now + 86400000 ELSE expiryArg[1]
        result == getExpireAllParams(crypto, isSessionId, expiry, namespaceArg)
    IN  /\ last' = [op |-> "getExpireAllParams", expiryArg |-> expiryArg,
                    expiry |-> expiry, namespaceArg |-> namespaceArg,
                    result |-> result]
        /\ UNCHANGED <<crypto, isSessionId>>

GetExpireMsgsParams ==
  \E messages \in OrderedHashLists, expiryArg \in ExpiryArgs,
     shorten \in FlagArgs, extend \in FlagArgs :
  \E now \in IF expiryArg = <<>> THEN Times ELSE {1} :
    LET expiry == IF expiryArg = <<>> THEN now + 86400000 ELSE expiryArg[1]
        result == getExpireMsgsParams(crypto, isSessionId, messages, expiry,
                                      shorten, extend)
    IN  /\ last' = [op |-> "getExpireMsgsParams", messages |-> messages,
                    expiryArg |-> expiryArg, expiry |-> expiry,
                    shorten |-> shorten, extend |-> extend, result |-> result]
        /\ UNCHANGED <<crypto, isSessionId>>

GetRevokeSubaccountParams ==
  \E delegation \in DelegationInputs, now \in Times :
    LET subaccountToken == delegation.subaccountToken
        result == getRevokeSubaccountParams(crypto, isSessionId, now, subaccountToken)
    IN  /\ last' = [op |-> "getRevokeSubaccountParams",
                    subaccountToken |-> subaccountToken, now |-> now,
                    result |-> result]
        /\ UNCHANGED <<crypto, isSessionId>>

\* new CryptoUtils(seed).signStore(namespace, sigTimestamp) with a timestamp
\* of today's size
SignStore ==
  \E namespace \in Namespaces, sigTimestamp \in WideTimes :
    /\ last' = [op |-> "signStore", seed |-> ExampleSeed,
                namespace |-> namespace, sigTimestamp |-> sigTimestamp,
                result |-> signMessage(CryptoUtils(ExampleSeed),
                             signStoreMessageWide(namespace, sigTimestamp))]
    /\ UNCHANGED <<crypto, isSessionId>>

\* CryptoUtils.signUnrevokeSubaccount of the generator's crypto
SignUnrevokeSubaccount ==
  \E subaccounts \in TokenLists, now \in Times :
    /\ last' = [op |-> "signUnrevokeSubaccount", subaccounts |-> subaccounts,
                now |-> now,
                result |-> signUnrevokeSubaccount(crypto, now, subaccounts)]
    /\ UNCHANGED <<crypto, isSessionId>>

\* permissions defaults to 1 and networkPrefix to 5
GenerateSubaccountDelegation ==
  \E target \in TargetKeys, permissions \in Permissions,
     prefixArg \in PrefixArgs :
    LET networkPrefix == IF prefixArg = <<>> THEN 5 ELSE prefixArg[1]
        targetPubkeyHex == HexEncode(target)
        call == [op |-> "generateSubaccountDelegation", target |-> target,
                 permissions |-> permissions, prefixArg |-> prefixArg]
    IN  IF BlindedTokenThrows(HexDecode(targetPubkeyHex))
        THEN /\ last' = call @@ [error |-> "RangeError"]
             /\ UNCHANGED <<crypto, isSessionId>>
        ELSE LET result == generateSubaccountDelegation(crypto, targetPubkeyHex,
                                                        permissions, networkPrefix)
             IN  /\ last' = call @@ [result |-> result]
                 /\ UNCHANGED <<crypto, isSessionId>>

\* CryptoUtils.generateSubaccountToken on an instance of its own
GenerateSubaccountToken ==
  \E kp \in RandomKeyPairs, permissions \in Permissions,
     networkPrefix \in NetworkPrefixes :
    /\ last' = [op |-> "generateSubaccountToken", publicKey |-> kp.publicKey,
                permissions |-> permissions, networkPrefix |-> networkPrefix,
                result |-> generateSubaccountToken(kp, permissions, networkPrefix)]
    /\ UNCHANGED <<crypto, isSessionId>>

GetStoreParamsWithSubaccount ==
  \E namespace \in Namespaces, now \in Times, delegation \in DelegationInputs,
     subaccountCrypto \in RandomKeyPairs :
    LET subaccountToken == delegation.subaccountToken
        subaccountSignature == delegation.subaccountSignature
        result == getStoreParamsWithSubaccount(crypto, now, DefaultData, DEFAULT_TTL,
                    namespace, subaccountToken, subaccountSignature, subaccountCrypto)
    IN  /\ last' = [op |-> "getStoreParamsWithSubaccount", namespace |-> namespace,
                    now |-> now, subaccountToken |-> subaccountToken,
                    subaccountSignature |-> subaccountSignature,
                    subaccountCrypto |-> subaccountCrypto, result |-> result]
        /\ UNCHANGED <<crypto, isSessionId>>

GetRetrieveParamsWithSubaccount ==
  \E namespace \in Namespaces, now \in Times, delegation \in DelegationInputs,
     subaccountCrypto \in RandomKeyPairs :
    LET subaccountToken == delegation.subaccountToken
        subaccountSignature == delegation.subaccountSignature
        result == getRetrieveParamsWithSubaccount(crypto, now, namespace,
                    subaccountToken, subaccountSignature, subaccountCrypto)
    IN  /\ last' = [op |-> "getRetrieveParamsWithSubaccount", namespace |-> namespace,
                    now |-> now, subaccountToken |-> subaccountToken,
                    subaccountSignature |-> subaccountSignature,
                    subaccountCrypto |-> subaccountCrypto, result |-> result]
        /\ UNCHANGED <<crypto, isSessionId>>

GetDeleteParamsWithSubaccount ==
  \E messages \in LongHashLists, delegation \in DelegationInputs,
     subaccountCrypto \in RandomKeyPairs :
    LET subaccountToken == delegation.subaccountToken
        subaccountSignature == delegation.subaccountSignature
        result == getDeleteParamsWithSubaccount(crypto, messages,
                    subaccountToken, subaccountSignature, subaccountCrypto)
    IN  /\ last' = [op |-> "getDeleteParamsWithSubaccount", messages |-> messages,
                    subaccountToken |-> subaccountToken,
                    subaccountSignature |-> subaccountSignature,
                    subaccountCrypto |-> subaccountCrypto, result |-> result]
        /\ UNCHANGED <<crypto, isSessionId>>

GenerateRequestBody ==
  \E method \in Methods, customParams \in CustomParamsArgs, now \in Times :
    LET result == generateRequestBody(crypto, isSessionId, now, method, customParams)
    IN  /\ last' = [op |-> "generateRequestBody", method |-> method,
                    customParams |-> customParams, now |-> now,
                    result |-> result]
        /\ UNCHANGED <<crypto, isSessionId>>

Next ==
  \/ SetCrypto
  \/ NewCryptoUtils
  \/ FromSeed
  \/ FromEd25519KeyPair
  \/ FromX25519KeyPair
  \/ NewPostmanParamsGenerator
  \/ SetSessionIdMode
  \/ GetSessionIdMode
  \/ GetPublicKey
  \/ GetPublicKeyTestnet
  \/ GetPublicKeyMainnet
  \/ GetPublicKeyNoPrefix
  \/ GetX25519PublicKeyNoPrefix
  \/ SeedToSessionId
  \/ GetStoreParams
  \/ GetRetrieveParams
  \/ GetDeleteParams
  \/ GetDeleteAllParams
  \/ GetUpdateParams
  \/ GetSwarmParams
  \/ GetMessagesParams
  \/ GetExpiriesParams
  \/ GetExpireAllParams
  \/ GetExpireMsgsParams
  \/ GetRevokeSubaccountParams
  \/ SignUnrevokeSubaccount
  \/ SignStore
  \/ GenerateSubaccountDelegation
  \/ GenerateSubaccountToken
  \/ GetStoreParamsWithSubaccount
  \/ GetRetrieveParamsWithSubaccount
  \/ GetDeleteParamsWithSubaccount
  \/ GenerateRequestBody

Spec == Init /\ [][Next]_vars

(***************************************************************************)
(* The token codec on its own: Init draws a prefix, a permission value and *)
(* a key, and one call encodes them.                                       *)
(***************************************************************************)
PermissionValues == 0..255
PrefixValues == {0, 5, 255, 261}
CodecKeys == {k \in TargetKeys : ~BlindedTokenThrows(k)}

InitToken ==
  /\ crypto \in RandomKeyPairs
  /\ isSessionId = FALSE
  /\ \E networkPrefix \in PrefixValues, permissions \in PermissionValues,
        target \in CodecKeys :
       last = [op |-> "input", networkPrefix |-> networkPrefix,
               permissions |-> permissions, target |-> target]

\* CryptoUtils.generateBlindedSubaccountToken of the drawn triple
EncodeBlindedToken ==
  /\ last.op = "input"
  /\ last' = [op |-> "generateBlindedSubaccountToken",
              networkPrefix |-> last.networkPrefix,
              permissions |-> last.permissions, target |-> last.target,
              result |-> generateBlindedSubaccountToken(last.target,
                           last.permissions, last.networkPrefix)]
  /\ UNCHANGED <<crypto, isSessionId>>

\* CryptoUtils.generateSubaccountToken of the drawn prefix and permissions
EncodeOwnToken ==
  /\ last.op = "input"
  /\ last' = [op |-> "generateSubaccountToken", publicKey |-> crypto.publicKey,
              permissions |-> last.permissions,
              networkPrefix |-> last.networkPrefix,
              result |-> generateSubaccountToken(crypto, last.permissions,
                                                 last.networkPrefix)]
  /\ UNCHANGED <<crypto, isSessionId>>

NextToken == EncodeBlindedToken \/ EncodeOwnToken

SpecToken == InitToken /\ [][NextToken]_vars

(***************************************************************************)
(* The same getStoreParams call made twice on one generator: last keeps    *)
(* the earlier call next to the later one, and the setters in between      *)
(* leave last alone.                                                       *)
(***************************************************************************)
\* what a getStoreParams call was given and what it returned
StoreCall(namespaceArg, now, kp, result) ==
  [namespaceArg |-> namespaceArg, now |-> now, crypto |-> kp, result |-> result]

AgainGetStoreParams ==
  \E namespaceArg \in NamespaceArgs, now \in Times :
    LET namespace == IF namespaceArg = <<>> THEN 0 ELSE namespaceArg[1]
        result == getStoreParams(crypto, isSessionId, now, DefaultData,
                                 DEFAULT_TTL, namespace)
    IN  /\ last' = [op |-> "getStoreParams",
                    call |-> StoreCall(namespaceArg, now, crypto, result),
                    before |-> IF last.op = "getStoreParams"
                               THEN <<last.call>> ELSE <<>>]
        /\ UNCHANGED <<crypto, isSessionId>>

\* setSessionIdMode(mode) between the two calls
BetweenSetSessionIdMode ==
  \E mode \in BOOLEAN :
    /\ isSessionId' = mode
    /\ UNCHANGED <<crypto, last>>

\* setCrypto(seed) between the two calls
BetweenSetCrypto ==
  \E seed \in SeedArgs :
  \E made \in CryptoUtilsConstructor(<<seed>>) :
    /\ crypto' = IF "error" \in DOMAIN made THEN crypto ELSE made.keyPair
    /\ UNCHANGED <<isSessionId, last>>

NextAgain == AgainGetStoreParams \/ BetweenSetSessionIdMode \/ BetweenSetCrypto

SpecAgain == Init /\ [][NextAgain]_vars

(***************************************************************************)
(* The sign methods on pairs of requests: Init draws two requests, and one *)
(* call signs each with the generator's key.  A request is its operation   *)
(* and the fields its message is built from; a field the operation does    *)
(* not sign is left at 0, <<>> or FALSE.                                   *)
(***************************************************************************)
PairNamespaces == {0, 1, 12}
PairTimes == {3, 23, 123}
PairHashLists ==
  {<< <<"a">>, <<"b">> >>, << <<"a","b">> >>, << <<"_","a","l","l","3">> >>}

Request(kind, namespace, time, messages, shorten) ==
  [kind |-> kind, namespace |-> namespace, time |-> time,
   messages |-> messages, shorten |-> shorten]

Requests ==
  {Request(kind, namespace, time, <<>>, FALSE) :
     kind \in {"retrieve", "delete_all", "expire_all"},
     namespace \in PairNamespaces, time \in PairTimes}
    \cup {Request("delete", 0, 0, messages, FALSE) : messages \in PairHashLists}
    \cup {Request("expire", 0, 3, << <<"a">> >>, shorten) : shorten \in BOOLEAN}

\* the sign method of the request's operation
SignRequest(kp, request) ==
  CASE request.kind = "retrieve" ->
         signRetrieve(kp, request.namespace, request.time)
    [] request.kind = "delete" -> signDelete(kp, request.messages)
    [] request.kind = "delete_all" ->
         signDeleteAll(kp, request.namespace, request.time)
    [] request.kind = "expire_all" ->
         signExpireAll(kp, <<request.namespace>>, request.time)
    [] request.kind = "expire" ->
         signExpireMsgs(kp, request.messages, request.time,
                        <<request.shorten>>, <<>>)

InitPair ==
  /\ crypto \in RandomKeyPairs
  /\ isSessionId = FALSE
  /\ \E first \in Requests, second \in Requests :
       last = [op |-> "input", first |-> first, second |-> second]

SignPair ==
  /\ last.op = "input"
  /\ last' = [op |-> "sign", first |-> last.first, second |-> last.second,
              firstSignature |-> SignRequest(crypto, last.first),
              secondSignature |-> SignRequest(crypto, last.second)]
  /\ UNCHANGED <<crypto, isSessionId>>

NextPair == SignPair

SpecPair == InitPair /\ [][NextPair]_vars

(***************************************************************************)
(* Properties                                                              *)
(***************************************************************************)
HasResult == "result" \in DOMAIN last
IsRequest == HasResult /\ last.op \in
  {"getStoreParams", "getRetrieveParams", "getDeleteParams", "getDeleteAllParams",
   "getUpdateParams", "getSwarmParams", "getMessagesParams", "getExpiriesParams",
   "getExpireAllParams", "getExpireMsgsParams", "getRevokeSubaccountParams",
   "getStoreParamsWithSubaccount", "getRetrieveParamsWithSubaccount",
   "getDeleteParamsWithSubaccount"}
IsSigned == IsRequest /\ "signature" \in DOMAIN last.result.params
\* the bytes under the request's signature
SignedBytes == SignatureOf(last.result.params.signature).message
\* the namespace a call with an optional namespace argument works on
NamespaceOfCall == IF last.namespaceArg = <<>> THEN 0 ELSE last.namespaceArg[1]
IsHexText(text) == \A i \in 1..Len(text) : IsHexChar(text[i])

\* C1 as stated: the store message omits namespace 0. For a store call with
\* namespace 0 or no namespace the signed text is "store" then decimal T,
\* and with namespace 5 it is "store5" then decimal T.
C1_StoreOmitsZeroNamespace ==
  (IsSigned /\ last.op = "getStoreParams") =>
    /\ NamespaceOfCall = 0 =>
         SignedBytes = TextEncode(<<"s","t","o","r","e">> \o NumberToString(last.now))
    /\ NamespaceOfCall = 5 =>
         SignedBytes = TextEncode(<<"s","t","o","r","e","5">> \o NumberToString(last.now))

\* C1 amended: the store message always renders the namespace. With
\* namespace 0 or no namespace the signed text is "store0" then decimal T
\* (the same text in both cases), and with namespace 5 it is "store5" then
\* decimal T, so the two differ only in the namespace digit.
C1_StoreRendersNamespace ==
  (IsSigned /\ last.op = "getStoreParams") =>
    /\ NamespaceOfCall = 0 =>
         SignedBytes = TextEncode(<<"s","t","o","r","e","0">> \o NumberToString(last.now))
    /\ NamespaceOfCall = 5 =>
         SignedBytes = TextEncode(<<"s","t","o","r","e","5">> \o NumberToString(last.now))

C1_Witness ==
  /\ IsSigned /\ last.op = "getStoreParams"
  /\ last.namespaceArg = <<>>
  /\ SignedBytes = TextEncode(<<"s","t","o","r","e","0">> \o NumberToString(last.now))

\* C2: retrieve, delete_all and expire_all sign the operation name, then the
\* decimal namespace only when it is not 0 (nothing for 0, and for
\* expire_all nothing for an unspecified namespace), then the decimal
\* timestamp or expiry; a namespace of 0 never appears as "0".
C2_NamespaceOmittedWhenZero ==
  /\ (IsSigned /\ last.op = "getRetrieveParams") =>
       SignedBytes = TextEncode(<<"r","e","t","r","i","e","v","e">>
         \o (IF NamespaceOfCall = 0 THEN <<>> ELSE NumberToString(NamespaceOfCall))
         \o NumberToString(last.now))
  /\ (IsSigned /\ last.op = "getDeleteAllParams") =>
       SignedBytes = TextEncode(<<"d","e","l","e","t","e","_","a","l","l">>
         \o (IF NamespaceOfCall = 0 THEN <<>> ELSE NumberToString(NamespaceOfCall))
         \o NumberToString(last.now))
  /\ (IsSigned /\ last.op = "getExpireAllParams") =>
       SignedBytes = TextEncode(<<"e","x","p","i","r","e","_","a","l","l">>
         \o (IF NamespaceOfCall = 0 THEN <<>> ELSE NumberToString(NamespaceOfCall))
         \o NumberToString(last.expiry))

C2_Witness ==
  /\ IsSigned /\ last.op = "getDeleteAllParams"
  /\ last.namespaceArg = <<0>>
  /\ SignedBytes = TextEncode(<<"d","e","l","e","t","e","_","a","l","l">>
                              \o NumberToString(last.now))

IsDelegated == IsRequest /\ last.op \in
  {"getStoreParamsWithSubaccount", "getRetrieveParamsWithSubaccount",
   "getDeleteParamsWithSubaccount"}

\* the text the plain form of the delegated operation signs, rebuilt from
\* the fields of the request
OwnMessageOfRequest ==
  LET params == last.result.params
  IN  IF last.op = "getStoreParamsWithSubaccount"
      THEN signStoreMessage(params.namespace, params.timestamp)
      ELSE IF last.op = "getRetrieveParamsWithSubaccount"
      THEN signRetrieveMessage(params.namespace, params.timestamp)
      ELSE signDeleteMessage(params.messages)

\* the signatures of the request that were not handed to the call
MadeDuringCall ==
  LET params == last.result.params
  IN  {params[k] : k \in DOMAIN params \cap {"signature", "subaccount_sig"}}
        \ {last.subaccountSignature}

\* C3: in a delegated store, retrieve or delete request (namespace other
\* than -10) the signature is made with the key of the subaccountCrypto
\* argument over the operation's own message, it is the only signature of
\* the request that was made during the call and the owner's key made none,
\* and subaccount and subaccount_sig are the token and signature that were
\* passed in.
C3_DelegateSignsOperation ==
  (IsDelegated /\ IsSigned) =>
    LET params == last.result.params
    IN  /\ SignatureOf(params.signature).signer = last.subaccountCrypto.secretKey
        /\ SignedBytes = TextEncode(OwnMessageOfRequest)
        /\ MadeDuringCall = {params.signature}
        /\ crypto.secretKey # last.subaccountCrypto.secretKey =>
             \A sig \in MadeDuringCall : SignatureOf(sig).signer # crypto.secretKey
        /\ params.subaccount = last.subaccountToken
        /\ params.subaccount_sig = last.subaccountSignature

C3_Witness ==
  /\ IsDelegated /\ IsSigned
  /\ last.op = "getStoreParamsWithSubaccount"
  /\ crypto.secretKey # last.subaccountCrypto.secretKey
  /\ last.subaccountToken # ForeignToken
  /\ SignatureOf(last.result.params.signature).signer = last.subaccountCrypto.secretKey

\* the 32-byte key named by a 66-character pubkey field
KeyNamedBy(pubkey) == SubSeq(HexDecode(pubkey), 2, 33)

\* C4: when the owner has just created a delegation for B's 32-byte public
\* key and the next call on the same generator attaches the returned token
\* and signature with B's keys, the request's subaccount is 72 hex
\* characters whose bytes 4..36 are B's public key, and subaccount_sig is a
\* signature over the 36 decoded token bytes that verifies under the key
\* named in the request's pubkey.
C4_DelegationEndToEnd ==
  [][ ( /\ last.op = "generateSubaccountDelegation"
        /\ HasResult
        /\ Len(last.target) = 32
        /\ last'.op \in {"getStoreParamsWithSubaccount",
                         "getRetrieveParamsWithSubaccount",
                         "getDeleteParamsWithSubaccount"}
        /\ last'.subaccountToken = last.result.subaccountToken
        /\ last'.subaccountSignature = last.result.subaccountSignature
        /\ last'.subaccountCrypto.publicKey = last.target )
      =>
      LET params == last'.result.params
      IN  /\ Len(params.subaccount) = 72
          /\ IsHexText(params.subaccount)
          /\ SubSeq(HexDecode(params.subaccount), 5, 36) = last'.subaccountCrypto.publicKey
          /\ Len(HexDecode(params.subaccount)) = 36
          /\ Verify(KeyNamedBy(params.pubkey), HexDecode(params.subaccount),
                    SignatureOf(params.subaccount_sig))
          /\ SignatureOf(params.subaccount_sig).message # TextEncode(params.subaccount)
    ]_vars

C4_Witness ==
  /\ IsDelegated
  /\ last.op = "getRetrieveParamsWithSubaccount"
  /\ last.subaccountToken # ForeignToken
  /\ crypto.publicKey # last.subaccountCrypto.publicKey
  /\ SubSeq(HexDecode(last.result.params.subaccount), 5, 36)
       = last.subaccountCrypto.publicKey
  /\ Verify(crypto.publicKey, HexDecode(last.result.params.subaccount),
            SignatureOf(last.result.params.subaccount_sig))

\* the two hex digits of a byte, as the token prints them
ByteHex(b) == <<HexUpper[(b \div 16) + 1], HexUpper[(b % 16) + 1]>>

\* C5: for every prefix byte, permission byte and 32-byte target key the
\* token of generateBlindedSubaccountToken decodes to the same triple: byte
\* 0 is the prefix, byte 1 the permission value (hex characters 2..4 print
\* it), bytes 2 and 3 are zero and bytes 4..36 are the target key.
C5_TokenRoundTrip ==
  ( /\ last.op = "generateBlindedSubaccountToken"
    /\ last.networkPrefix \in 0..255
    /\ last.permissions \in 0..255
    /\ Len(last.target) = 32 ) =>
    LET token == last.result.token
        bytes == HexDecode(token)
    IN  /\ HexDecodable(token)
        /\ bytes[1] = last.networkPrefix
        /\ bytes[2] = last.permissions
        /\ SubSeq(token, 3, 4) = ByteHex(last.permissions)
        /\ bytes[3] = 0
        /\ bytes[4] = 0
        /\ SubSeq(bytes, 5, 36) = last.target
        /\ last.result.blindedPubkey = last.target

C5_Witness ==
  /\ last.op = "generateBlindedSubaccountToken"
  /\ last.networkPrefix = 5
  /\ last.permissions = 15
  /\ Len(last.target) = 32
  /\ SubSeq(last.result.token, 1, 8) = <<"0","5","0","F","0","0","0","0">>

\* C6: every token generateSubaccountToken or generateBlindedSubaccountToken
\* returns is 36 bytes, 72 hex characters, for every permission value
\* 0x00..0xFF and every prefix value.
C6_TokenLength ==
  LET token == IF last.op = "generateBlindedSubaccountToken"
               THEN last.result.token ELSE last.result
  IN  last.op \in {"generateBlindedSubaccountToken", "generateSubaccountToken"} =>
        /\ Len(token) = 72
        /\ HexDecodable(token)
        /\ Len(HexDecode(token)) = 36

C6_Witness ==
  /\ last.op = "generateBlindedSubaccountToken"
  /\ last.permissions = 255
  /\ last.networkPrefix = 261
  /\ Len(last.target) = 31
  /\ Len(last.result.token) = 72

IsPlainSigned == IsSigned /\ last.op \in
  {"getStoreParams", "getRetrieveParams", "getDeleteParams", "getDeleteAllParams",
   "getUpdateParams", "getMessagesParams", "getExpiriesParams",
   "getExpireAllParams", "getExpireMsgsParams", "getRevokeSubaccountParams"}

\* C7: every non-delegated signed request agrees with the session mode of
\* the generator at the call: in Session ID mode pubkey is 05 then the
\* X25519 key and pubkey_ed25519 is the raw 64-hex Ed25519 key, otherwise
\* pubkey is 00 then the Ed25519 key and pubkey_ed25519 is absent; the mode
\* is the one the last setSessionIdMode call set.
C7_SessionModeConsistent ==
  /\ last.op = "setSessionIdMode" => isSessionId = last.isSessionId
  /\ IsPlainSigned =>
    LET params == last.result.params
    IN  IF isSessionId
        THEN /\ params.pubkey = <<"0","5">>
                   \o HexEncode(convertPublicKeyToX25519(crypto.publicKey))
             /\ "pubkey_ed25519" \in DOMAIN params
             /\ params.pubkey_ed25519 = HexEncode(crypto.publicKey)
             /\ Len(params.pubkey_ed25519) = 64
        ELSE /\ params.pubkey = <<"0","0">> \o HexEncode(crypto.publicKey)
             /\ "pubkey_ed25519" \notin DOMAIN params

C7_Witness ==
  /\ IsPlainSigned
  /\ last.op = "getExpireMsgsParams"
  /\ isSessionId
  /\ last.result.params.pubkey_ed25519 = HexEncode(crypto.publicKey)

\* C8: every account identifier is 66 hex characters: the prefix 00 or 05
\* and a 32-byte key. This covers getPublicKey, getPublicKeyTestnet,
\* getPublicKeyMainnet, seedToSessionId and the pubkey of every request.
IsAccountId(id) ==
  /\ Len(id) = 66
  /\ IsHexText(id)
  /\ SubSeq(id, 1, 2) \in {<<"0","0">>, <<"0","5">>}
  /\ Len(HexDecode(id)) = 33

C8_IdentifierLength ==
  /\ (HasResult /\ last.op \in {"getPublicKey", "getPublicKeyTestnet",
                                "getPublicKeyMainnet", "seedToSessionId"}) =>
       IsAccountId(last.result)
  /\ IsRequest => IsAccountId(last.result.params.pubkey)

C8_Witness ==
  /\ IsRequest
  /\ isSessionId
  /\ last.op = "getRetrieveParams"
  /\ IsAccountId(last.result.params.pubkey)
  /\ SubSeq(last.result.params.pubkey, 1, 2) = <<"0","5">>

\* C9: expire_msgs signs "expire", then a literal, then the decimal expiry,
\* then the hashes in order; the literal is "shorten" when shorten is true
\* (also when extend is true as well), "extend" when only extend is true and
\* empty when both are false or absent.
C9_ExpireMsgsMessage ==
  (IsSigned /\ last.op = "getExpireMsgsParams") =>
    LET literal ==
          IF last.shorten = <<TRUE>> THEN <<"s","h","o","r","t","e","n">>
          ELSE IF last.extend = <<TRUE>> THEN <<"e","x","t","e","n","d">>
          ELSE <<>>
    IN  SignedBytes = TextEncode(<<"e","x","p","i","r","e">> \o literal
                        \o NumberToString(last.expiry) \o Join(last.messages))

C9_Witness ==
  /\ IsSigned /\ last.op = "getExpireMsgsParams"
  /\ last.shorten = <<TRUE>>
  /\ last.extend = <<TRUE>>
  /\ Len(last.messages) >= 2
  /\ SignedBytes = TextEncode(<<"e","x","p","i","r","e","s","h","o","r","t","e","n">>
                     \o NumberToString(last.expiry) \o Join(last.messages))

\* the strings of a list one after the other, by position
RECURSIVE Concat(_, _)
Concat(list, n) ==
  IF n = 0 THEN <<>> ELSE Concat(list, n - 1) \o list[n]

\* C10: delete signs "delete" then the hashes, get_expiries signs
\* "get_expiries", the decimal timestamp, then the hashes; the hashes are
\* joined with no delimiter in the caller's order, never sorted or
\* deduplicated.
C10_HashesInCallerOrder ==
  /\ (IsSigned /\ last.op \in {"getDeleteParams", "getDeleteParamsWithSubaccount"}) =>
       SignedBytes = TextEncode(<<"d","e","l","e","t","e">>
                       \o Concat(last.messages, Len(last.messages)))
  /\ (IsSigned /\ last.op = "getExpiriesParams") =>
       SignedBytes = TextEncode(<<"g","e","t","_","e","x","p","i","r","i","e","s">>
                       \o NumberToString(last.now)
                       \o Concat(last.messages, Len(last.messages)))

C10_Witness ==
  /\ IsSigned /\ last.op = "getDeleteParams"
  /\ Len(last.messages) >= 2
  /\ last.messages[1] = <<"b">>
  /\ last.messages[2] = <<"a">>
  /\ SignedBytes = TextEncode(<<"d","e","l","e","t","e","b","a">>)

\* C11: revoke_subaccount signs the text "revoke_subaccount" followed by the
\* token's hex string with the generator's key, and the request's revoke
\* field is that same string; unrevoke_subaccount signs
\* "unrevoke_subaccount", the decimal timestamp, then the token hex
\* strings one after the other in the order given.
C11_RevocationMessages ==
  /\ (IsRequest /\ last.op = "getRevokeSubaccountParams") =>
       /\ SignedBytes =
            TextEncode(<<"r","e","v","o","k","e","_","s","u","b","a","c","c","o","u","n","t">>
                       \o last.subaccountToken)
       /\ SignatureOf(last.result.params.signature).signer = crypto.secretKey
       /\ last.result.params.revoke = last.subaccountToken
  /\ last.op = "signUnrevokeSubaccount" =>
       /\ SignatureOf(last.result).message =
            TextEncode(<<"u","n","r","e","v","o","k","e","_","s","u","b","a","c","c","o","u","n","t">>
                       \o NumberToString(last.now)
                       \o Concat(last.subaccounts, Len(last.subaccounts)))
       /\ SignatureOf(last.result).signer = crypto.secretKey

C11_Witness ==
  /\ IsRequest /\ last.op = "getRevokeSubaccountParams"
  /\ last.subaccountToken # ForeignToken
  /\ Len(last.subaccountToken) = 2 * TOKEN_LENGTH
  /\ last.result.params.revoke = last.subaccountToken
  /\ SubSeq(SignedBytes, 1, 6) = TextEncode(<<"r","e","v","o","k","e">>)

\* C12: the store signature for namespace 0 and timestamp 1753933969153,
\* made with the key pair of the seed 610987A8...9F16, verifies under that
\* key pair's public key against the bytes of "store01753933969153".
C12_ExampleStoreVerifies ==
  (/\ last.op = "signStore"
   /\ last.seed = ExampleSeed
   /\ last.namespace = 0
   /\ last.sigTimestamp = ExampleTimestamp) =>
    Verify(PublicKeyOfSeed(ExampleSeed),
           TextEncode(<<"s","t","o","r","e","0",
                        "1","7","5","3","9","3","3","9","6","9","1","5","3">>),
           SignatureOf(last.result))

C12_Witness ==
  /\ last.op = "signStore"
  /\ last.namespace = 0
  /\ last.sigTimestamp = ExampleTimestamp
  /\ Len(last.seed) = SEED_LENGTH
  /\ last.seed[1] = 97
  /\ last.seed[SEED_LENGTH] = 22
  /\ Len(SignatureOf(last.result).message) = 19

\* C13: in every signed delegated request the bytes under the owner's
\* grant signature (the decoded token: 36 bytes whose third and fourth are
\* zero) differ from the bytes the delegate signed for the operation (ASCII
\* text, no zero byte), so subaccount_sig never equals signature, also when
\* owner and delegate hold the same key pair.
C13_GrantAndOperationSeparate ==
  (IsDelegated /\ IsSigned) =>
    LET params == last.result.params
        granted == SignatureOf(params.subaccount_sig).message
    IN  /\ granted = HexDecode(params.subaccount)
        /\ Len(granted) = TOKEN_LENGTH
        /\ granted[3] = 0 /\ granted[4] = 0
        /\ \A i \in 1..Len(SignedBytes) : SignedBytes[i] # 0
        /\ granted # SignedBytes
        /\ params.subaccount_sig # params.signature

C13_Witness ==
  /\ IsDelegated /\ IsSigned
  /\ last.subaccountCrypto = crypto
  /\ last.subaccountToken # ForeignToken
  /\ SignatureOf(last.result.params.subaccount_sig).signer = crypto.secretKey
  /\ SignatureOf(last.result.params.signature).signer = crypto.secretKey
  /\ last.result.params.subaccount_sig # last.result.params.signature

\* the calls whose signed message has a namespace field and whose namespace
\* argument is optional
TakesNamespace ==
  IsRequest /\ last.op \in {"getStoreParams", "getRetrieveParams",
                            "getDeleteAllParams", "getExpireAllParams"}

\* C14 as stated: the request of store, retrieve, delete_all and expire_all
\* always carries namespace, also when the caller named none.
C14_NamespaceAlwaysCarried ==
  TakesNamespace => "namespace" \in DOMAIN last.result.params

\* C14: store, retrieve and delete_all requests always carry namespace, 0 when
\* the caller named none, also where the signed message omits it; an
\* expire_all request carries the namespace exactly when the caller named
\* one, 0 included, and has no namespace field otherwise.
C14_NamespaceInBody ==
  TakesNamespace =>
    LET params == last.result.params
    IN  IF last.op = "getExpireAllParams" /\ last.namespaceArg = <<>>
        THEN "namespace" \notin DOMAIN params
        ELSE /\ "namespace" \in DOMAIN params
             /\ params.namespace = NamespaceOfCall

\* an expire_all request for no namespace has been built, signed over
\* "expire_all" then the expiry
C14_Witness ==
  /\ TakesNamespace
  /\ last.op = "getExpireAllParams"
  /\ last.namespaceArg = <<>>
  /\ "namespace" \notin DOMAIN last.result.params
  /\ SignedBytes = TextEncode(<<"e","x","p","i","r","e","_","a","l","l">>
                                \o NumberToString(last.expiry))

\* the store and retrieve requests, plain and delegated
IsStoreOrRetrieve ==
  IsRequest /\ last.op \in {"getStoreParams", "getRetrieveParams",
                            "getStoreParamsWithSubaccount",
                            "getRetrieveParamsWithSubaccount"}

\* C15: every store or retrieve request, for every namespace, -10 included,
\* contains a pubkey and a signature, and the signature is one made with an
\* Ed25519 key over the request's message.
C15_SignatureAlwaysPresent ==
  IsStoreOrRetrieve =>
    LET params == last.result.params
    IN  /\ "pubkey" \in DOMAIN params
        /\ "signature" \in DOMAIN params
        /\ \E kp \in RandomKeyPairs \cup {crypto} :
             SignatureOf(params.signature).signer = kp.secretKey

\* a store or retrieve request for namespace -10 has been returned with a
\* pubkey and without a signature
C15_Witness ==
  /\ IsStoreOrRetrieve
  /\ last.result.params.namespace = -10
  /\ "pubkey" \in DOMAIN last.result.params
  /\ "signature" \notin DOMAIN last.result.params

\* C16: asking generateRequestBody for a method it has no case for fails with
\* UnsupportedOperation: nothing is returned, neither an empty record nor the
\* caller's customParams.
C16_UnknownMethodFails ==
  (last.op = "generateRequestBody" /\ last.method \notin SwitchCases) =>
    /\ ~HasResult
    /\ "error" \in DOMAIN last
    /\ last.error = "UnsupportedOperation"

\* a request body has been returned for a method without a case, with the
\* caller's customParams as its params
C16_Witness ==
  /\ last.op = "generateRequestBody"
  /\ last.method = "frobnicate"
  /\ last.customParams # <<>>
  /\ HasResult
  /\ last.result = [method |-> "frobnicate", params |-> last.customParams[1]]

\* the expire_all and expire calls made without an expiry
ExpiryAbsent ==
  /\ last.op \in {"getExpireAllParams", "getExpireMsgsParams"}
  /\ last.expiryArg = <<>>

\* C17: an expire_all or expire request asked for without an expiry fails
\* with MissingRequiredField; no request and no signature is returned.
C17_AbsentExpiryFails ==
  ExpiryAbsent =>
    /\ ~HasResult
    /\ "error" \in DOMAIN last
    /\ last.error = "MissingRequiredField"

\* a request asked for without an expiry has been returned, with the clock's
\* time plus a day as its expiry and a signature over it
C17_Witness ==
  /\ ExpiryAbsent
  /\ IsSigned
  /\ last.result.params.expiry = last.expiry
  /\ last.expiry > 86400000
  /\ \E i \in 1..Len(SignedBytes) :
       SubSeq(SignedBytes, i, Len(SignedBytes)) = TextEncode(NumberToString(last.expiry))

\* the delegations asked for with a target key that is not 32 bytes long
BadTargetKey ==
  /\ last.op = "generateSubaccountDelegation"
  /\ Len(last.target) # PUBLIC_KEY_LENGTH

\* C18: creating a delegation for a target key that is shorter or longer than
\* 32 bytes fails: the call ends in an error and returns no token and no
\* owner signature.
C18_BadKeyFails ==
  BadTargetKey => (~HasResult /\ "error" \in DOMAIN last)

\* a delegation for a 31-byte key has been returned: a 36-byte token whose
\* last byte is the zero the key did not fill, and the owner's signature
\* over it
C18_Witness ==
  /\ BadTargetKey
  /\ Len(last.target) = PUBLIC_KEY_LENGTH - 1
  /\ HasResult
  /\ LET tokenBytes == HexDecode(last.result.subaccountToken)
     IN  /\ Len(tokenBytes) = TOKEN_LENGTH
         /\ tokenBytes[TOKEN_LENGTH] = 0
         /\ SignatureOf(last.result.subaccountSignature)
              = [signer |-> crypto.secretKey, message |-> tokenBytes]

\* the calls that were handed a seed which is not 32 bytes long
BadSeedCall ==
  \/ /\ last.op \in {"setCrypto", "fromSeed"}
     /\ Len(last.seed) # SEED_LENGTH
  \/ /\ last.op \in {"CryptoUtils", "PostmanParamsGenerator"}
     /\ last.seedArg # <<>>
     /\ Len(last.seedArg[1]) # SEED_LENGTH

\* C19: a call of the CryptoUtils constructor, fromSeed, the
\* PostmanParamsGenerator constructor or setCrypto with a seed that is not 32
\* bytes long, the empty seed included, fails: it ends in an error, returns
\* no key pair, and leaves the generator's key pair as it was.
C19_BadSeedFails ==
  [][BadSeedCall' => (/\ "error" \in DOMAIN last'
                      /\ "result" \notin DOMAIN last'
                      /\ crypto' = crypto)]_vars

\* setCrypto has been called with the empty seed and has thrown
C19_Witness ==
  /\ BadSeedCall
  /\ last.op = "setCrypto"
  /\ last.seed = <<>>
  /\ "error" \in DOMAIN last

\* C20: the key pair a generator holds is immutable: no operation on the
\* generator changes it, so the key it reports and signs with stays the one it
\* was created with.
C20_KeyPairImmutable == [][crypto' = crypto]_vars

\* setCrypto has returned, and the generator reports and signs with the key
\* pair of the seed it was just given
C20_Witness ==
  /\ last.op = "setCrypto"
  /\ "error" \notin DOMAIN last
  /\ crypto = generateKeyPairFromSeed(last.seed)
  /\ getPublicKeyNoPrefix(crypto) = HexEncode(PublicKeyOfSeed(last.seed))

\* a getStoreParams call that repeats the call before it: the same namespace
\* argument, the same clock value and the same key pair
RepeatedCall ==
  /\ last.op = "getStoreParams"
  /\ "before" \in DOMAIN last
  /\ last.before # <<>>
  /\ last.before[1].namespaceArg = last.call.namespaceArg
  /\ last.before[1].now = last.call.now
  /\ last.before[1].crypto = last.call.crypto

\* C21: request construction is stateless: a getStoreParams call that repeats
\* an earlier call on the same generator, with the same arguments, key
\* material and clock value, returns the same result, whatever was done to
\* the generator in between.
C21_SameCallSameResult ==
  RepeatedCall => last.call.result = last.before[1].result

\* the same store call has been made twice with setSessionIdMode in between,
\* and the two results name different pubkeys
C21_Witness ==
  /\ RepeatedCall
  /\ last.call.result.params.pubkey # last.before[1].result.params.pubkey
  /\ last.call.result.params.signature = last.before[1].result.params.signature

\* an instance has just been created from a seed: the seed it was given
\* and the key pair it holds
CreatedFromSeed ==
  /\ HasResult
  /\ \/ last.op = "fromSeed"
     \/ last.op \in {"CryptoUtils", "PostmanParamsGenerator"} /\ last.seedArg # <<>>
SeedOfCreated == IF last.op = "fromSeed" THEN last.seed ELSE last.seedArg[1]
KeysOfCreated ==
  IF last.op = "PostmanParamsGenerator" THEN last.result.crypto ELSE last.result
\* the seed the generator's own key pair was made from
SeedOf(kp) == SubSeq(kp.secretKey, 1, SEED_LENGTH)

\* C22: an instance created from a 32-byte seed holds the key pair of that
\* seed, so it holds the same key pair as the generator whenever the
\* generator's key pair came from the same seed; and for the same namespace
\* and timestamp the two instances sign the same message bytes and return
\* the same signature for store, retrieve and delete_all.
C22_SameSeedSameKeysAndSignatures ==
  CreatedFromSeed =>
    /\ KeysOfCreated.publicKey = PublicKeyOfSeed(SeedOfCreated)
    /\ SeedOf(KeysOfCreated) = SeedOfCreated
    /\ SeedOf(crypto) = SeedOfCreated =>
         /\ KeysOfCreated = crypto
         /\ \A namespace \in Namespaces, timestamp \in Times :
              /\ signStore(KeysOfCreated, namespace, timestamp)
                   = signStore(crypto, namespace, timestamp)
              /\ SignatureOf(signStore(KeysOfCreated, namespace, timestamp)).message
                   = TextEncode(signStoreMessage(namespace, timestamp))
              /\ signRetrieve(KeysOfCreated, namespace, timestamp)
                   = signRetrieve(crypto, namespace, timestamp)
              /\ signDeleteAll(KeysOfCreated, namespace, timestamp)
                   = signDeleteAll(crypto, namespace, timestamp)

\* fromSeed has returned an instance for the seed the generator's key pair
\* was set from with setCrypto
C22_Witness ==
  /\ CreatedFromSeed
  /\ last.op = "fromSeed"
  /\ SeedOf(crypto) = last.seed
  /\ last.result = crypto
  /\ signStore(last.result, 5, 1) = signStore(crypto, 5, 1)

\* a getStoreParams call has returned
IsStoreRequest == HasResult /\ last.op = "getStoreParams"

\* C23 as stated: in Session ID mode getStoreParams returns the pubkey that
\* getPublicKeyMainnet returns, 05 and the Ed25519 key, with pubkey_ed25519;
\* otherwise 00 and the Ed25519 key and no pubkey_ed25519.
C23_SessionPubkeyIsMainnetKey ==
  IsStoreRequest =>
    LET params == last.result.params
    IN  IF isSessionId
        THEN /\ params.pubkey = getPublicKeyMainnet(crypto)
             /\ "pubkey_ed25519" \in DOMAIN params
             /\ params.pubkey_ed25519 = getPublicKeyNoPrefix(crypto)
        ELSE /\ params.pubkey = <<"0","0">> \o getPublicKeyNoPrefix(crypto)
             /\ "pubkey_ed25519" \notin DOMAIN params

\* C23: the mode is the one setSessionIdMode was last given; in Session ID
\* mode getStoreParams returns pubkey equal to 05 followed by the X25519 key
\* that getX25519PublicKeyNoPrefix returns, together with pubkey_ed25519
\* equal to the Ed25519 key; otherwise pubkey is 00 followed by the Ed25519
\* key, the value of getPublicKey, and pubkey_ed25519 is absent.
C23_SessionPubkeyIsX25519Key ==
  /\ last.op = "setSessionIdMode" => isSessionId = last.isSessionId
  /\ IsStoreRequest =>
       LET params == last.result.params
       IN  IF isSessionId
           THEN /\ params.pubkey = <<"0","5">> \o getX25519PublicKeyNoPrefix(crypto)
                /\ "pubkey_ed25519" \in DOMAIN params
                /\ params.pubkey_ed25519 = getPublicKeyNoPrefix(crypto)
           ELSE /\ params.pubkey = <<"0","0">> \o getPublicKeyNoPrefix(crypto)
                /\ params.pubkey = getPublicKey(crypto)
                /\ "pubkey_ed25519" \notin DOMAIN params

\* a store request has been built in Session ID mode whose pubkey is not the
\* value of getPublicKeyMainnet
C23_Witness ==
  /\ IsStoreRequest
  /\ isSessionId
  /\ last.result.params.pubkey # getPublicKeyMainnet(crypto)
  /\ last.result.params.pubkey_ed25519 = getPublicKeyNoPrefix(crypto)

\* the permission byte has the AnyPrefix bit, 8
HasAnyPrefix(permissions) == (permissions \div 8) % 2 = 1
\* the network prefix byte of a 66-character pubkey field
PrefixNamedBy(pubkey) == HexDecode(pubkey)[1]

\* C24: when the generator has just created a delegation and the next call
\* on it attaches the returned token and signature, the token's prefix byte
\* equals the prefix byte of the request's pubkey unless the token's
\* permission byte has the AnyPrefix bit; delegations created without a
\* networkPrefix argument included.
C24_TokenPrefixMatchesPubkey ==
  [][ ( /\ last.op = "generateSubaccountDelegation"
        /\ HasResult
        /\ last'.op \in {"getStoreParamsWithSubaccount",
                         "getRetrieveParamsWithSubaccount",
                         "getDeleteParamsWithSubaccount"}
        /\ last'.subaccountToken = last.result.subaccountToken
        /\ last'.subaccountSignature = last.result.subaccountSignature )
      =>
      LET params == last'.result.params
          token == HexDecode(params.subaccount)
      IN  \/ token[1] = PrefixNamedBy(params.pubkey)
          \/ HasAnyPrefix(token[2])
    ]_vars

\* a delegated request carries a token this generator has signed whose prefix
\* byte is 5 and whose permission byte is 1, under a pubkey with prefix 0
C24_Witness ==
  /\ IsDelegated
  /\ last.subaccountToken # ForeignToken
  /\ SignatureOf(last.result.params.subaccount_sig).signer = crypto.secretKey
  /\ HexDecode(last.result.params.subaccount)[1] = 5
  /\ HexDecode(last.result.params.subaccount)[2] = 1
  /\ PrefixNamedBy(last.result.params.pubkey) = 0

\* the public key half of a 64-byte secret key
PublicKeyOf(secretKey) ==
  SubSeq(secretKey, SEED_LENGTH + 1, SEED_LENGTH + PUBLIC_KEY_LENGTH)

\* C25: in every delegated request the key that made signature is the key in
\* bytes 4..36 of the subaccount token, and subaccount_sig is a signature
\* over the token bytes made by the key that pubkey names.
C25_PartsBelongTogether ==
  IsDelegated =>
    LET params == last.result.params
        token == HexDecode(params.subaccount)
    IN  /\ IsSigned =>
             PublicKeyOf(SignatureOf(params.signature).signer)
               = SubSeq(token, 5, TOKEN_LENGTH)
        /\ Verify(KeyNamedBy(params.pubkey), token,
                  SignatureOf(params.subaccount_sig))

\* a delegated request has been returned whose token names a key other than
\* the one that signed the request, and whose subaccount_sig was made by a
\* key other than the one pubkey names
C25_Witness ==
  /\ IsDelegated /\ IsSigned
  /\ last.subaccountToken = ForeignToken
  /\ SubSeq(HexDecode(last.result.params.subaccount), 5, TOKEN_LENGTH)
       # last.subaccountCrypto.publicKey
  /\ SignatureOf(last.result.params.signature).signer = last.subaccountCrypto.secretKey
  /\ PublicKeyOf(SignatureOf(last.result.params.subaccount_sig).signer)
       # KeyNamedBy(last.result.params.pubkey)

\* the signed requests whose message carries the clock's timestamp, and
\* those whose message carries an expiry
SignsTimestamp ==
  IsSigned /\ last.op \in {"getStoreParams", "getRetrieveParams",
                           "getDeleteAllParams", "getExpiriesParams",
                           "getUpdateParams", "getMessagesParams"}
SignsExpiry ==
  IsSigned /\ last.op \in {"getExpireAllParams", "getExpireMsgsParams"}

\* C26: every timestamp or expiry that is part of a signed message is also
\* in the request params with the same value; this covers store, retrieve,
\* delete_all, get_expiries, expire_all, expire, update and get_messages.
C26_SignedTimeIsReturned ==
  /\ SignsTimestamp =>
       /\ "timestamp" \in DOMAIN last.result.params
       /\ last.result.params.timestamp = last.now
  /\ SignsExpiry =>
       /\ "expiry" \in DOMAIN last.result.params
       /\ last.result.params.expiry = last.expiry

\* a get_messages request has been returned that is signed over
\* "get_messages" and the clock's timestamp and has no timestamp in its params
C26_Witness ==
  /\ SignsTimestamp
  /\ last.op = "getMessagesParams"
  /\ SignedBytes = TextEncode(<<"g","e","t","_","m","e","s","s","a","g","e","s">>
                                \o NumberToString(last.now))
  /\ "timestamp" \notin DOMAIN last.result.params

\* C27: two distinct requests never have the same canonical message, so the
\* signature made for one does not verify over the message of the other.
C27_EncodingUnambiguous ==
  (last.op = "sign" /\ last.first # last.second) =>
    /\ SignatureOf(last.firstSignature).message
         # SignatureOf(last.secondSignature).message
    /\ ~Verify(crypto.publicKey, SignatureOf(last.secondSignature).message,
               SignatureOf(last.firstSignature))

\* retrieve for namespace 1 at time 23 and retrieve for namespace 12 at time
\* 3 have both been signed, over the same bytes "retrieve123"
C27_Witness ==
  /\ last.op = "sign"
  /\ last.first = Request("retrieve", 1, 23, <<>>, FALSE)
  /\ last.second = Request("retrieve", 12, 3, <<>>, FALSE)
  /\ SignatureOf(last.firstSignature).message
       = TextEncode(<<"r","e","t","r","i","e","v","e","1","2","3">>)
  /\ last.firstSignature = last.secondSignature

\* C28: in any state of the generator, Session ID mode included, a delegated
\* request has pubkey equal to 00 followed by the owner's Ed25519 key, the
\* value of getPublicKey, and has no pubkey_ed25519.
C28_DelegatedIgnoresMode ==
  IsDelegated =>
    /\ last.result.params.pubkey = <<"0","0">> \o HexEncode(crypto.publicKey)
    /\ last.result.params.pubkey = getPublicKey(crypto)
    /\ "pubkey_ed25519" \notin DOMAIN last.result.params

\* a delegated delete has been built in Session ID mode, where a plain
\* request names the 05 X25519 identifier
C28_Witness ==
  /\ IsDelegated
  /\ last.op = "getDeleteParamsWithSubaccount"
  /\ isSessionId
  /\ last.result.params.pubkey = getPublicKey(crypto)
  /\ getDeleteParams(crypto, isSessionId, last.messages).params.pubkey
       = <<"0","5">> \o getX25519PublicKeyNoPrefix(crypto)

\* generateRequestBody has returned for a method it has a case for
IsSupportedBody ==
  HasResult /\ last.op = "generateRequestBody" /\ last.method \in SwitchCases

\* C29: for each method generateRequestBody has a case for, the body is the
\* request the method's generator returns: method, and params holding the
\* generator's fields directly, pubkey among them for every method but
\* get_stats.
C29_BodyIsTheRequest ==
  IsSupportedBody =>
    /\ last.result.method = last.method
    /\ "params" \notin DOMAIN last.result.params
    /\ "method" \notin DOMAIN last.result.params
    /\ last.method # "get_stats" => "pubkey" \in DOMAIN last.result.params
    /\ last.method = "store" =>
         last.result = getStoreParams(crypto, isSessionId, last.now,
                                      DefaultData, DEFAULT_TTL, 0)
    /\ last.method = "get_swarm" => last.result = getSwarmParams(crypto)

\* a store body has been returned whose params is the whole store request,
\* with pubkey and signature one level further down
C29_Witness ==
  /\ IsSupportedBody
  /\ last.method = "store"
  /\ last.result.params = getStoreParams(crypto, isSessionId, last.now,
                                         DefaultData, DEFAULT_TTL, 0)
  /\ "pubkey" \notin DOMAIN last.result.params
  /\ "signature" \in DOMAIN last.result.params.params

\* C30: a step changes the key pair only if it is setCrypto and changes the
\* session mode only if it is setSessionIdMode, which sets the mode to its
\* argument; setCrypto leaves the mode and setSessionIdMode leaves the key
\* pair; getSessionIdMode returns the mode, which is therefore the argument
\* of the last setSessionIdMode call, or the constructor's when there was
\* none.
C30_OnlySettersChangeState ==
  [][ /\ crypto' # crypto => last'.op = "setCrypto"
      /\ isSessionId' # isSessionId => last'.op = "setSessionIdMode"
      /\ last'.op = "setCrypto" => isSessionId' = isSessionId
      /\ last'.op = "setSessionIdMode" =>
           (crypto' = crypto /\ isSessionId' = last'.isSessionId)
      /\ last'.op = "getSessionIdMode" =>
           (last'.result = isSessionId /\ isSessionId' = isSessionId)
    ]_vars

\* setCrypto has given a generator in Session ID mode the key pair of its
\* seed, and the generator is still in Session ID mode
C30_Witness ==
  /\ last.op = "setCrypto"
  /\ "error" \notin DOMAIN last
  /\ crypto = CryptoUtils(last.seed)
  /\ isSessionId

====
